---- MODULE Spec2Model ----
(***************************************************************************)
(* A model of src/src/util/decompile-util.ts: the SB3 -> jvavscratch       *)
(* decompiler.  generateJavaScriptFromBlocks, findTopLevelBlocks,          *)
(* decompileBlock and processInput are pure functions and are modelled as  *)
(* operators; createjvavscratchProject is modelled as a step machine over  *)
(* the file system.                                                        *)
(*                                                                         *)
(* Generated text is a sequence of pieces [ind, txt, nl]: `ind` levels of  *)
(* four spaces, then txt, then a newline when nl.  Render turns a sequence *)
(* of pieces into the string the code builds.                              *)
(*                                                                         *)
(* A call returns [err, out]: err = "none" and the text, or the name of    *)
(* the exception that left the call.                                        *)
(***************************************************************************)
EXTENDS Integers, Sequences, FiniteSets, TLC

VARIABLES pc, blocks, keys, variables, lists, arg, ret,
          tempHasJson, targets, projectDir, idx, sprites

vars == <<pc, blocks, keys, variables, lists, arg, ret,
          tempHasJson, targets, projectDir, idx, sprites>>

(***************************************************************************)
(* Bounds                                                                  *)
(***************************************************************************)
\* Depth of nested decompileBlock/processInput calls the engine's call stack
\* holds; one more call raises RangeError (Maximum call stack size exceeded).
StackLimit == 6

\* Largest number of non-stage targets in a project.
MaxSprites == 2

\* Number of blocks in a block map.
NumBlocks == 2

\* Largest number of explicit variable declarations.
MaxDecls == 2

(***************************************************************************)
(* JavaScript values                                                       *)
(***************************************************************************)
Undef == [t |-> "undef", s |-> "", n |-> 0]
Null == [t |-> "null", s |-> "", n |-> 0]
Str(x) == [t |-> "str", s |-> x, n |-> 0]
Num(x) == [t |-> "num", s |-> "", n |-> x]

\* v is falsy (the left side of `v || d` is dropped, `v && ...` stops)
Falsy(v) == \/ v.t \in {"undef", "null"}
            \/ v.t = "str" /\ v.s = ""
            \/ v.t = "num" /\ v.n = 0

\* `${v}` in a template literal
ValText(v) == CASE v.t = "str" -> v.s
                [] v.t = "num" -> ToString(v.n)
                [] v.t = "null" -> "null"
                [] OTHER -> "undefined"

\* a || d
OrElse(v, d) == IF Falsy(v) THEN d ELSE v

(***************************************************************************)
(* Results of calls                                                        *)
(***************************************************************************)
Ok(out) == [err |-> "none", out |-> out]
Raise(e) == [err |-> e, out |-> <<>>]
Line(ind, txt) == [ind |-> ind, txt |-> txt, nl |-> TRUE]
Expr(txt) == [ind |-> 0, txt |-> txt, nl |-> FALSE]

\* ' '.repeat(indentation * 4)
RECURSIVE Indent(_)
Indent(indentation) ==
    IF indentation = 0 THEN "" ELSE "    " \o Indent(indentation - 1)

RenderPiece(p) == Indent(p.ind) \o p.txt \o (IF p.nl THEN "\n" ELSE "")

\* the string a sequence of pieces stands for
RECURSIVE Render(_)
Render(out) ==
    IF out = <<>> THEN "" ELSE RenderPiece(Head(out)) \o Render(Tail(out))

\* String.prototype.trim on generated text: the first piece loses its
\* indentation and the last piece its newline (no generated piece is blank
\* at either end in the modelled universe of strings).
Trim(out) ==
    IF out = <<>> THEN ""
    ELSE LET n == Len(out)
             first == [out[1] EXCEPT !.ind = 0]
             o1 == [out EXCEPT ![1] = first]
             o2 == [o1 EXCEPT ![n] = [o1[n] EXCEPT !.nl = FALSE]]
         IN  Render(o2)

\* the first exception among results evaluated in order, or "none"
RECURSIVE FirstErr(_)
FirstErr(rs) ==
    IF rs = <<>> THEN "none"
    ELSE IF Head(rs).err # "none" THEN Head(rs).err
    ELSE FirstErr(Tail(rs))

\* text of a processInput result
Txt(r) == Render(r.out)

(***************************************************************************)
(* Strings: the functions of the code that look inside a string, given as  *)
(* tables over the strings the model uses.                                 *)
(***************************************************************************)
\* escapeString: \ " \n \r \t are escaped
EscapeString(str) ==
    CASE str = "say \"hi\"" -> "say \\\"hi\\\""
      [] str = "a\\b" -> "a\\\\b"
      [] OTHER -> str

\* strings for which !isNaN(Number(value)) && value.trim() !== ''
IsNumeric(value) == value \in {"5", "10", "05", " 7 ", "0"}

\* Number(value).toString()
NumberText(value) ==
    CASE value = "05" -> "5"
      [] value = " 7 " -> "7"
      [] OTHER -> value

\* str.split(' ')[0]
FirstWord(str) ==
    CASE str = "greet %s %s" -> "greet"
      [] str = "reset all" -> "reset"
      [] OTHER -> str

\* The cloud marker U+2601 is written "CLOUD" here.
CloudMarker == "CLOUD"

\* names that begin with the cloud marker
BeginsWithCloud(name) == name \in {"CLOUD", "CLOUD score"}

EventOpcodes == {"event_whenflagclicked", "event_whenkeypressed"}

\* opcode.startsWith(prefix)
StartsWith(opcode, prefix) ==
    CASE prefix = "event_" -> opcode \in EventOpcodes
      [] prefix = "operator_" ->
            opcode \in {"operator_equals", "operator_greaterthan", "operator_gt",
                        "operator_lessthan", "operator_lt", "operator_not",
                        "operator_add", "operator_subtract", "operator_multiply",
                        "operator_divide", "operator_join", "operator_mod"}
      [] prefix = "data_itemoflist" -> opcode = "data_itemoflist"
      [] prefix = "data_lengthoflist" -> opcode = "data_lengthoflist"
      [] prefix = "sensing_" ->
            opcode \in {"sensing_touchingobject", "sensing_mousedown",
                        "sensing_mousex", "sensing_mousey", "sensing_keyoptions",
                        "sensing_timer", "sensing_resettimer"}
      [] prefix = "data_" ->
            opcode \in {"data_variable", "data_listcontents", "data_setvariableto",
                        "data_changevariableby", "data_addtolist",
                        "data_deletealloflist", "data_deleteoflist",
                        "data_replaceitemoflist", "data_itemoflist",
                        "data_lengthoflist", "data_showlist"}
      [] prefix = "motion_" ->
            opcode \in {"motion_movesteps", "motion_turnright", "motion_turnleft",
                        "motion_gotoxy", "motion_changexby", "motion_changeyby",
                        "motion_pointindirection", "motion_glidesecstoxy",
                        "motion_setx"}
      [] prefix = "looks_" ->
            opcode \in {"looks_say", "looks_sayforsecs", "looks_think",
                        "looks_thinkforsecs", "looks_show", "looks_hide",
                        "looks_switchcostumeto", "looks_nextcostume",
                        "looks_setsizeto", "looks_changesizoby",
                        "looks_cleargraphiceffects"}
      [] prefix = "sound_" ->
            opcode \in {"sound_play", "sound_playuntildone", "sound_stopallsounds",
                        "sound_changevolumeby", "sound_setvolumeto",
                        "sound_cleareffects"}
      [] OTHER -> FALSE

\* opcode.includes(part): the prefix, or the part further in
Includes(opcode, part) ==
    \/ StartsWith(opcode, part)
    \/ part = "motion_" /\ opcode = "ext_motion_tilt"

(***************************************************************************)
(* Blocks                                                                  *)
(*   opcode    the opcode string; a malformed block has no opcode key       *)
(*   next      the id of the next block, "" when null or absent             *)
(*   inputs    input name -> input                                          *)
(*   fields    field name -> element [0] of the field's tuple               *)
(*   mutation  [proccode, hasInputIds, inputids, hasParamNames, paramnames] *)
(* An input is [k, ref, v]:                                                 *)
(*   "absent"   undefined        "scalar"  a number where a tuple belongs   *)
(*   "short"    a tuple of fewer than two elements                          *)
(*   "ref"      [t, ref]: the second element is the string ref              *)
(*   "lit"      [t, [kind, v]]: a literal with value v                      *)
(*   "litshort" [t, [kind]]      "other"   [t, x], x no string and no array *)
(***************************************************************************)
AbsentInput == [k |-> "absent", ref |-> "", v |-> Undef]
ScalarInput == [k |-> "scalar", ref |-> "", v |-> Undef]
ShortInput == [k |-> "short", ref |-> "", v |-> Undef]
RefInput(id) == [k |-> "ref", ref |-> id, v |-> Undef]
LitInput(v) == [k |-> "lit", ref |-> "", v |-> v]
LitShortInput == [k |-> "litshort", ref |-> "", v |-> Undef]
OtherInput == [k |-> "other", ref |-> "", v |-> Undef]

NoMutation == [proccode |-> Undef, hasInputIds |-> FALSE, inputids |-> <<>>,
               hasParamNames |-> FALSE, paramnames |-> <<>>]

Block(opcode, next, inputs, fields) ==
    [opcode |-> opcode, next |-> next, inputs |-> inputs, fields |-> fields,
     mutation |-> NoMutation]

NoMap == [x \in {} |-> Undef]

\* block.opcode is a string
HasOpcode(block) == "opcode" \in DOMAIN block

\* block.inputs?.NAME
GetInput(block, name) ==
    IF name \in DOMAIN block.inputs THEN block.inputs[name] ELSE AbsentInput

\* block.fields?.NAME?.[0]
GetField(block, name) ==
    IF name \in DOMAIN block.fields THEN block.fields[name] ELSE Undef

\* block.inputs?.NAME && block.inputs.NAME[1] && blocks[block.inputs.NAME[1]]
BodyResolves(blks, block, name) ==
    LET input == GetInput(block, name)
    IN  input.k = "ref" /\ input.ref # "" /\ input.ref \in DOMAIN blks

\* block.next && blocks[block.next]
NextResolves(blks, block) == block.next # "" /\ block.next \in DOMAIN blks

(***************************************************************************)
(* decompileBlock and processInput                                         *)
(***************************************************************************)
\* what the switch of decompileBlock leaves: text and `break`, a returned
\* expression, or an exception
Brk(out) == [err |-> "none", out |-> out, returned |-> FALSE]
Rtn(txt) == [err |-> "none", out |-> <<Expr(txt)>>, returned |-> TRUE]
Thr(e) == [err |-> e, out |-> <<>>, returned |-> TRUE]

\* F of the value of v, with v evaluated once
Bind(v, F(_)) == CHOOSE y \in {F(x) : x \in {v}} : TRUE

\* one statement line built from processInput results rs by text
Stmt(indentation, rs, text) ==
    IF FirstErr(rs) # "none" THEN Thr(FirstErr(rs))
    ELSE Brk(<<Line(indentation, text)>>)

\* a returned expression built from processInput results rs
Val(rs, text) ==
    IF FirstErr(rs) # "none" THEN Thr(FirstErr(rs)) ELSE Rtn(text)

\* a statement line around escapeString(v): v.replace is no function unless
\* v is a string
EscStmt(indentation, v, rs, pre, post) ==
    IF v.t # "str" THEN Thr("TypeError")
    ELSE Stmt(indentation, rs, pre \o EscapeString(v.s) \o post)

\* array.join(', ')
RECURSIVE Join(_)
Join(items) ==
    IF items = <<>> THEN ""
    ELSE IF Len(items) = 1 THEN items[1]
    ELSE items[1] \o ", " \o Join(Tail(items))

\* the opcodes processInput takes for expressions
IsExpressionOpcode(opcode) ==
    \/ StartsWith(opcode, "operator_")
    \/ StartsWith(opcode, "data_itemoflist")
    \/ StartsWith(opcode, "data_lengthoflist")
    \/ StartsWith(opcode, "sensing_")
    \/ opcode = "data_variable"
    \/ opcode = "data_listcontents"

\* the names processInput emits unquoted
FreeVariableNames ==
    {"i", "j", "k", "len", "current", "next", "result", "separator"}

\* paramNames of procedures_definition
ParamNames(mutation) ==
    IF ~mutation.hasInputIds THEN <<>>
    ELSE [index \in 1..Len(mutation.inputids) |->
            IF mutation.hasParamNames
            THEN IF index <= Len(mutation.paramnames)
                 THEN mutation.paramnames[index] ELSE ""
            ELSE "param" \o ToString(index)]

RECURSIVE DecompileBlock(_, _, _, _, _), ProcessInput(_, _, _, _)

\* the comment line of the default case
DefaultComment(opcode) ==
    IF Includes(opcode, "motion_") THEN "// Motion block: " \o opcode
    ELSE IF Includes(opcode, "looks_") THEN "// Looks block: " \o opcode
    ELSE IF Includes(opcode, "sound_") THEN "// Sound block: " \o opcode
    ELSE IF Includes(opcode, "sensing_") THEN "// Sensing block: " \o opcode
    ELSE "// Unsupported block: " \o opcode

\* a body decompiled at the indentation of its header
BodySameLevel(blks, block, name, indentation, depth) ==
    IF BodyResolves(blks, block, name)
    THEN DecompileBlock(blks, GetInput(block, name).ref,
                        blks[GetInput(block, name).ref], indentation, depth + 1)
    ELSE Ok(<<>>)

\* the text of the body chain an input of a control block names, empty when
\* the input is absent or names no block of the map
Body(blks, block, name, indentation, depth) ==
    IF BodyResolves(blks, block, name)
    THEN DecompileBlock(blks, GetInput(block, name).ref,
                        blks[GetInput(block, name).ref], indentation + 1, depth + 1)
    ELSE Ok(<<>>)

\* header, body and closing brace of a loop, a conditional or a procedure
Construct(indentation, rs, header, body) ==
    IF FirstErr(rs) # "none" THEN Thr(FirstErr(rs))
    ELSE IF body.err # "none" THEN Thr(body.err)
    ELSE Brk(<<Line(indentation, header)>> \o body.out
             \o <<Line(indentation, "}")>>)

\* case 'control_repeat'
ControlRepeat(blks, block, indentation, depth) ==
    Bind(Body(blks, block, "SUBSTACK", indentation, depth), LAMBDA body :
        Construct(indentation, <<>>,
                  "for (let i = 0; i < "
                      \o ValText(OrElse(GetField(block, "TIMES"), Str("10")))
                      \o "; i++) {",
                  body))

\* case 'control_repeat_until'
ControlRepeatUntil(blks, block, indentation, depth) ==
    Bind(ProcessInput(blks, GetInput(block, "CONDITION"), indentation, depth + 1),
         LAMBDA condition :
    Bind(Body(blks, block, "SUBSTACK", indentation, depth), LAMBDA body :
        Construct(indentation, <<condition>>,
                  "while (" \o Txt(condition) \o ") {", body)))

\* case 'control_if'
ControlIf(blks, block, indentation, depth) ==
    Bind(ProcessInput(blks, GetInput(block, "CONDITION"), indentation, depth + 1),
         LAMBDA ifCondition :
    Bind(Body(blks, block, "SUBSTACK", indentation, depth), LAMBDA body :
        Construct(indentation, <<ifCondition>>,
                  "if (" \o Txt(ifCondition) \o ") {", body)))

\* the lines of an if/else pair
IfElseLines(indentation, ifElseCondition, body1, body2) ==
    IF ifElseCondition.err # "none" THEN Thr(ifElseCondition.err)
    ELSE IF body1.err # "none" THEN Thr(body1.err)
    ELSE IF body2.err # "none" THEN Thr(body2.err)
    ELSE Brk(<<Line(indentation, "if (" \o Txt(ifElseCondition) \o ") {")>>
             \o body1.out
             \o <<Line(indentation, "} else {")>>
             \o body2.out
             \o <<Line(indentation, "}")>>)

\* case 'control_if_else'
ControlIfElse(blks, block, indentation, depth) ==
    Bind(ProcessInput(blks, GetInput(block, "CONDITION"), indentation, depth + 1),
         LAMBDA ifElseCondition :
    Bind(Body(blks, block, "SUBSTACK", indentation, depth), LAMBDA body1 :
    Bind(Body(blks, block, "SUBSTACK2", indentation, depth), LAMBDA body2 :
        IfElseLines(indentation, ifElseCondition, body1, body2))))

\* "Process next block": the text of the next chain, at the same indentation
NextChain(blks, block, indentation, depth) ==
    IF NextResolves(blks, block)
    THEN DecompileBlock(blks, block.next, blks[block.next], indentation, depth + 1)
    ELSE Ok(<<>>)

\* case 'event_whenflagclicked': the comment, then the next chain, then break
EventWhenFlagClicked(blks, block, indentation, depth) ==
    Bind(NextChain(blks, block, indentation, depth), LAMBDA chain :
        IF chain.err # "none" THEN Thr(chain.err)
        ELSE Brk(<<Line(indentation, "// When green flag clicked")>> \o chain.out))

\* case 'procedures_definition'
ProceduresDefinition(blks, block, indentation, depth) ==
    LET procCode == OrElse(GetField(block, "custom_block"), Str("customBlock"))
    IN  IF procCode.t # "str" THEN Thr("TypeError")
        ELSE Bind(Body(blks, block, "custom_block_substack", indentation, depth),
                  LAMBDA body :
                Construct(indentation, <<>>,
                          "function " \o FirstWord(procCode.s) \o "("
                              \o Join(ParamNames(block.mutation)) \o ") {",
                          body))

\* args of procedures_call: processInput of each declared input that the
\* block has, in the order of mutation.inputids
RECURSIVE CallArgs(_, _, _, _, _)
CallArgs(blks, block, inputIds, indentation, depth) ==
    IF inputIds = <<>> THEN <<>>
    ELSE LET id == Head(inputIds)
             rest == CallArgs(blks, block, Tail(inputIds), indentation, depth)
         IN  IF GetInput(block, id).k = "absent" THEN rest
             ELSE <<ProcessInput(blks, GetInput(block, id), indentation, depth + 1)>>
                  \o rest

\* case 'procedures_call'
ProceduresCall(blks, block, indentation, depth) ==
    LET proccode == block.mutation.proccode
        callProcName ==
            IF proccode.t = "str"
            THEN OrElse(Str(FirstWord(proccode.s)), Str("customBlock")).s
            ELSE "customBlock"
    IN  IF proccode.t = "num" THEN Thr("TypeError")
        ELSE Bind(CallArgs(blks, block, block.mutation.inputids, indentation, depth),
                  LAMBDA args :
                Stmt(indentation, args,
                     callProcName \o "("
                         \o Join([a \in 1..Len(args) |-> Txt(args[a])]) \o ");"))

\* the switch of decompileBlock over block.opcode
Switch(blks, block, indentation, depth) ==
    LET op == block.opcode
        In(name) == ProcessInput(blks, GetInput(block, name), indentation, depth + 1)
        Fld(name, default) == OrElse(GetField(block, name), Str(default))
        Binary(token) ==
            Bind(In("OPERAND1"), LAMBDA left :
            Bind(In("OPERAND2"), LAMBDA right :
                Val(<<left, right>>, Txt(left) \o " " \o token \o " " \o Txt(right))))
        OneArg(name, pre) ==
            Bind(In(name), LAMBDA a :
                Stmt(indentation, <<a>>, pre \o "(" \o Txt(a) \o ");"))
        ListName == ValText(Fld("LIST", "my list"))
    IN
    CASE op = "event_whenflagclicked" ->
            EventWhenFlagClicked(blks, block, indentation, depth)
      [] op = "data_variable" -> Rtn(ValText(Fld("VARIABLE", "my variable")))
      [] op = "data_listcontents" -> Rtn(ListName)
      [] op = "data_setvariableto" ->
            Bind(In("VALUE"), LAMBDA valueCode :
                Stmt(indentation, <<valueCode>>,
                     ValText(Fld("VARIABLE", "my variable")) \o " = "
                         \o Txt(valueCode) \o ";"))
      [] op = "data_changevariableby" ->
            Bind(In("VALUE"), LAMBDA changeValue :
                Stmt(indentation, <<changeValue>>,
                     ValText(Fld("VARIABLE", "my variable")) \o " = "
                         \o ValText(Fld("VARIABLE", "my variable")) \o " + "
                         \o Txt(changeValue) \o ";"))
      [] op = "data_addtolist" ->
            Bind(In("ITEM"), LAMBDA itemValue :
                Stmt(indentation, <<itemValue>>,
                     "list.addItem(\"" \o ListName \o "\", " \o Txt(itemValue) \o ");"))
      [] op = "data_deletealloflist" ->
            Stmt(indentation, <<>>, "list.deleteAllOfList(\"" \o ListName \o "\");")
      [] op = "data_deleteoflist" ->
            Bind(In("INDEX"), LAMBDA index :
                Stmt(indentation, <<index>>,
                     "list.deleteItem(\"" \o ListName \o "\", " \o Txt(index) \o ");"))
      [] op = "data_replaceitemoflist" ->
            Bind(In("INDEX"), LAMBDA index2 :
            Bind(In("ITEM"), LAMBDA newValue :
                Stmt(indentation, <<index2, newValue>>,
                     "list.replace(\"" \o ListName \o "\", " \o Txt(index2) \o ", "
                         \o Txt(newValue) \o ");")))
      [] op = "data_itemoflist" ->
            Bind(In("INDEX"), LAMBDA index3 :
                Val(<<index3>>,
                    "list.getItem(\"" \o ListName \o "\", " \o Txt(index3) \o ")"))
      [] op = "data_lengthoflist" -> Rtn("list.length(\"" \o ListName \o "\")")
      [] op = "control_repeat" -> ControlRepeat(blks, block, indentation, depth)
      [] op = "control_repeat_until" ->
            ControlRepeatUntil(blks, block, indentation, depth)
      [] op = "control_if" -> ControlIf(blks, block, indentation, depth)
      [] op = "control_if_else" -> ControlIfElse(blks, block, indentation, depth)
      [] op = "looks_say" ->
            EscStmt(indentation, Fld("MESSAGE", ""), <<>>, "looks.say(\"", "\");")
      [] op = "operator_equals" -> Binary("==")
      [] op \in {"operator_greaterthan", "operator_gt"} -> Binary(">")
      [] op \in {"operator_lessthan", "operator_lt"} -> Binary("<")
      [] op = "operator_not" ->
            Bind(In("OPERAND"), LAMBDA opNot :
                Val(<<opNot>>, "!(" \o Txt(opNot) \o ")"))
      [] op = "operator_add" -> Binary("+")
      [] op = "operator_subtract" -> Binary("-")
      [] op = "operator_multiply" -> Binary("*")
      [] op = "operator_divide" -> Binary("/")
      [] op = "operator_join" ->
            Bind(In("STRING1"), LAMBDA op15 :
            Bind(In("STRING2"), LAMBDA op16 :
                Val(<<op15, op16>>,
                    "operation.join(" \o Txt(op15) \o ", " \o Txt(op16) \o ")")))
      [] op = "procedures_definition" ->
            ProceduresDefinition(blks, block, indentation, depth)
      [] op = "procedures_call" -> ProceduresCall(blks, block, indentation, depth)
      [] op = "motion_movesteps" ->
            Stmt(indentation, <<>>,
                 "motion.moveSteps(" \o ValText(Fld("STEPS", "10")) \o ");")
      [] op = "motion_turnright" ->
            Stmt(indentation, <<>>,
                 "motion.turnRight(" \o ValText(Fld("DEGREES", "15")) \o ");")
      [] op = "motion_turnleft" ->
            Stmt(indentation, <<>>,
                 "motion.turnLeft(" \o ValText(Fld("DEGREES", "15")) \o ");")
      [] op = "motion_gotoxy" ->
            Bind(In("X"), LAMBDA x :
            Bind(In("Y"), LAMBDA y :
                Stmt(indentation, <<x, y>>,
                     "motion.goTo(" \o Txt(x) \o ", " \o Txt(y) \o ");")))
      [] op = "motion_changexby" -> OneArg("DX", "motion.changeX")
      [] op = "motion_changeyby" -> OneArg("DY", "motion.changeY")
      [] op = "motion_pointindirection" ->
            OneArg("DIRECTION", "motion.pointInDirection")
      [] op = "motion_glidesecstoxy" ->
            Bind(In("SECONDS"), LAMBDA seconds :
            Bind(In("X"), LAMBDA glideX :
            Bind(In("Y"), LAMBDA glideY :
                Stmt(indentation, <<seconds, glideX, glideY>>,
                     "motion.glideTo(" \o Txt(seconds) \o ", " \o Txt(glideX) \o ", "
                         \o Txt(glideY) \o ");"))))
      [] op = "looks_sayforsecs" ->
            Bind(In("SECONDS"), LAMBDA saySeconds :
                EscStmt(indentation, Fld("MESSAGE", ""), <<saySeconds>>,
                        "looks.sayForSeconds(\"", "\", " \o Txt(saySeconds) \o ");"))
      [] op = "looks_think" ->
            EscStmt(indentation, Fld("MESSAGE", ""), <<>>, "looks.think(\"", "\");")
      [] op = "looks_thinkforsecs" ->
            Bind(In("SECONDS"), LAMBDA thinkSeconds :
                EscStmt(indentation, Fld("MESSAGE", ""), <<thinkSeconds>>,
                        "looks.thinkForSeconds(\"",
                        "\", " \o Txt(thinkSeconds) \o ");"))
      [] op = "looks_show" -> Stmt(indentation, <<>>, "looks.show();")
      [] op = "looks_hide" -> Stmt(indentation, <<>>, "looks.hide();")
      [] op = "looks_switchcostumeto" ->
            EscStmt(indentation, Fld("COSTUME", ""), <<>>,
                    "looks.switchCostumeTo(\"", "\");")
      [] op = "looks_nextcostume" -> Stmt(indentation, <<>>, "looks.nextCostume();")
      [] op = "looks_setsizeto" -> OneArg("SIZE", "looks.setSizeTo")
      [] op = "looks_changesizoby" -> OneArg("SIZE", "looks.changeSizeBy")
      [] op = "sound_play" ->
            EscStmt(indentation, Fld("SOUND_MENU", ""), <<>>,
                    "sound.playSound(\"", "\");")
      [] op = "sound_playuntildone" ->
            EscStmt(indentation, Fld("SOUND_MENU", ""), <<>>,
                    "sound.playSoundUntilDone(\"", "\");")
      [] op = "sound_stopallsounds" -> Stmt(indentation, <<>>, "sound.stopAllSounds();")
      [] op = "sound_changevolumeby" -> OneArg("VOLUME", "sound.changeVolumeBy")
      [] op = "sound_setvolumeto" -> OneArg("VOLUME", "sound.setVolumeTo")
      [] op = "sensing_touchingobject" ->
            LET touchObject == Fld("TOUCHINGOBJECT", "")
            IN  IF touchObject.t # "str" THEN Thr("TypeError")
                ELSE Rtn("sensing.isTouching(\"" \o EscapeString(touchObject.s) \o "\")")
      [] op = "sensing_mousedown" -> Rtn("sensing.mouseDown()")
      [] op = "sensing_mousex" -> Rtn("sensing.mouseX()")
      [] op = "sensing_mousey" -> Rtn("sensing.mouseY()")
      [] op = "sensing_keyoptions" ->
            LET key == Fld("KEY_OPTION", "")
            IN  IF key.t # "str" THEN Thr("TypeError")
                ELSE Rtn("sensing.keyPressed(\"" \o EscapeString(key.s) \o "\")")
      [] op = "control_wait" -> OneArg("DURATION", "control.wait")
      [] op = "control_stop" ->
            EscStmt(indentation, Fld("STOP_OPTION", ""), <<>>, "control.stop(\"", "\");")
      [] OTHER -> Brk(<<Line(indentation, DefaultComment(op))>>)

\* the switch, then the next chain unless the switch returned
\* the next handling reached also from the cases that return
SwitchAlwaysNext(blks, block, indentation, depth) ==
    Bind(Switch(blks, block, indentation, depth), LAMBDA sw :
        IF sw.err # "none" THEN Raise(sw.err)
        ELSE Bind(NextChain(blks, block, indentation, depth), LAMBDA chain :
                IF chain.err # "none" THEN Raise(chain.err)
                ELSE Ok(sw.out \o chain.out)))

SwitchThenNext(blks, block, indentation, depth) ==
    Bind(Switch(blks, block, indentation, depth), LAMBDA sw :
        IF sw.err # "none" THEN Raise(sw.err)
        ELSE IF sw.returned THEN Ok(sw.out)
        ELSE Bind(NextChain(blks, block, indentation, depth), LAMBDA chain :
                IF chain.err # "none" THEN Raise(chain.err)
                ELSE Ok(sw.out \o chain.out)))

\* decompileBlock(blocks, blockId, block, indentation), called at nesting
\* `depth` of the call stack
DecompileBlock(blks, blockId, block, indentation, depth) ==
    IF depth > StackLimit THEN Raise("RangeError")
    ELSE IF ~HasOpcode(block) THEN Raise("TypeError")
    ELSE Bind(block, LAMBDA b : SwitchThenNext(blks, b, indentation, depth))

\* the text of a literal input value
LiteralText(value) ==
    CASE value.t = "str" ->
            IF IsNumeric(value.s) THEN Ok(<<Expr(NumberText(value.s))>>)
            ELSE IF value.s \in FreeVariableNames THEN Ok(<<Expr(value.s)>>)
            ELSE Ok(<<Expr("\"" \o EscapeString(value.s) \o "\"")>>)
      [] value.t = "num" -> Ok(<<Expr(ToString(value.n))>>)
      [] value.t = "null" -> Raise("TypeError")
      [] OTHER -> Ok(<<Expr("null")>>)

\* the text of an input that references the block inputData
ReferenceText(blks, inputData, indentation, depth) ==
    IF inputData \notin DOMAIN blks THEN Ok(<<Expr("null")>>)
    ELSE IF ~HasOpcode(blks[inputData]) THEN Raise("TypeError")
    ELSE Bind(DecompileBlock(blks, inputData, blks[inputData], indentation, depth + 1),
              LAMBDA result :
            IF result.err # "none" THEN result
            ELSE IF IsExpressionOpcode(blks[inputData].opcode)
            THEN Ok(<<Expr(Render(result.out))>>)
            ELSE Ok(<<Expr(Trim(result.out))>>))

\* processInput(blocks, input, indentation), called at nesting `depth`
ProcessInput(blks, input, indentation, depth) ==
    IF depth > StackLimit THEN Raise("RangeError")
    ELSE CASE input.k \in {"absent", "scalar", "short"} -> Ok(<<Expr("null")>>)
           [] input.k = "ref" -> ReferenceText(blks, input.ref, indentation, depth)
           [] input.k = "lit" -> LiteralText(input.v)
           [] OTHER -> Ok(<<Expr("null")>>)

(***************************************************************************)
(* findTopLevelBlocks                                                      *)
(* A block map is a function blks from identifiers to blocks together with *)
(* ks, the sequence Object.keys(blocks) of its identifiers.                *)
(***************************************************************************)
\* childBlocks: the second elements of input tuples that are strings, and
\* the truthy next fields
ChildBlockIds(blks) ==
    LET refs == UNION {{blks[b].inputs[i].ref :
                           i \in {j \in DOMAIN blks[b].inputs :
                                     blks[b].inputs[j].k = "ref"}} :
                       b \in DOMAIN blks}
        nexts == {blks[b].next : b \in {c \in DOMAIN blks : blks[c].next # ""}}
    IN  refs \cup nexts

\* the second loop: the identifiers no block references, in key order
Unreferenced(blks, ks) ==
    LET NotChild(blockId) == blockId \notin ChildBlockIds(blks)
    IN  SelectSeq(ks, NotChild)

\* findTopLevelBlocks without its third loop
ForceIncludedNever(blks, ks, topLevelBlockIds) == topLevelBlockIds

\* the third loop: the event blocks not yet listed are appended, in key order
ForceIncluded(blks, ks, topLevelBlockIds) ==
    LET listed == {topLevelBlockIds[n] : n \in 1..Len(topLevelBlockIds)}
        Missing(blockId) ==
            StartsWith(blks[blockId].opcode, "event_") /\ blockId \notin listed
    IN  topLevelBlockIds \o SelectSeq(ks, Missing)

\* findTopLevelBlocks(blocks): [err, ids]
FindTopLevelBlocks(blks, ks) ==
    IF \E b \in DOMAIN blks : ~HasOpcode(blks[b])
    THEN [err |-> "TypeError", ids |-> <<>>]
    ELSE [err |-> "none", ids |-> ForceIncluded(blks, ks, Unreferenced(blks, ks))]

(***************************************************************************)
(* generateJavaScriptFromBlocks                                            *)
(* The variables (and lists) argument is [shape, items]: shape "array" or  *)
(* "object" with the entries in iteration order, or "none" when it is no   *)
(* object.  An entry is [pair, name, value]: pair says it is an array,     *)
(* name and value are its elements 0 and 1 (for a list entry, items is     *)
(* element 1, <<>> when falsy).                                            *)
(* The declarations collected are d = [vars, vinit, lsts, linit]:          *)
(* foundVariables and foundLists in insertion order, and the two maps of   *)
(* initial values.                                                         *)
(***************************************************************************)
\* map[key] = value
Put(map, key, value) ==
    [x \in DOMAIN map \cup {key} |-> IF x = key THEN value ELSE map[x]]

\* a set that yields the name added last first
AddInFront(found, name) ==
    IF \E n \in 1..Len(found) : found[n] = name THEN found ELSE <<name>> \o found

\* set.add(name) on a Set kept in insertion order
Add(found, name) ==
    IF \E n \in 1..Len(found) : found[n] = name THEN found ELSE Append(found, name)

NoDeclarations == [vars |-> <<>>, vinit |-> NoMap, lsts |-> <<>>, linit |-> NoMap]

\* the forEach over the explicit variables
RECURSIVE ExplicitVariables(_, _)
ExplicitVariables(items, d) ==
    IF items = <<>> THEN d
    ELSE LET variable == Head(items)
             name == ValText(variable.name)
             keep == variable.pair /\ ~Falsy(variable.name)
                        /\ variable.name # Str(CloudMarker)
         IN  ExplicitVariables(Tail(items),
                IF keep
                THEN [d EXCEPT !.vars = Add(d.vars, name),
                               !.vinit = Put(d.vinit, name,
                                            IF variable.value # Undef
                                            THEN variable.value ELSE Str(""))]
                ELSE d)

\* the forEach over the explicit lists
RECURSIVE ExplicitLists(_, _)
ExplicitLists(items, d) ==
    IF items = <<>> THEN d
    ELSE LET list == Head(items)
             name == ValText(list.name)
         IN  ExplicitLists(Tail(items),
                IF list.pair /\ ~Falsy(list.name)
                THEN [d EXCEPT !.lsts = Add(d.lsts, name),
                               !.linit = Put(d.linit, name, list.items)]
                ELSE d)

\* a scan that takes no notice of data_setvariableto
ScanBlockChangeOnly(block, d) ==
    IF block.opcode = "data_changevariableby"
    THEN LET v == GetField(block, "VARIABLE")
         IN  IF ~Falsy(v) /\ v # Str(CloudMarker)
             THEN [d EXCEPT !.vars = Add(d.vars, ValText(v)),
                            !.vinit = IF ValText(v) \in DOMAIN d.vinit THEN d.vinit
                                      ELSE Put(d.vinit, ValText(v), Str(""))]
             ELSE d
    ELSE d

\* one block of the scan for variable and list references
ScanBlock(block, d) ==
    IF block.opcode \in {"data_setvariableto", "data_changevariableby"}
    THEN LET v == GetField(block, "VARIABLE")
             name == ValText(v)
         IN  IF ~Falsy(v) /\ v # Str(CloudMarker)
             THEN [d EXCEPT !.vars = Add(d.vars, name),
                            !.vinit = IF name \in DOMAIN d.vinit THEN d.vinit
                                      ELSE Put(d.vinit, name, Str(""))]
             ELSE d
    ELSE LET l == GetField(block, "LIST")
             name == ValText(l)
         IN  IF StartsWith(block.opcode, "data_") /\ ~Falsy(l)
             THEN [d EXCEPT !.lsts = Add(d.lsts, name),
                            !.linit = IF name \in DOMAIN d.linit THEN d.linit
                                      ELSE Put(d.linit, name, <<>>)]
             ELSE d

\* Object.values(blocks).forEach of the scan
RECURSIVE ScanBlocks(_, _, _)
ScanBlocks(blks, ks, d) ==
    IF ks = <<>> THEN d
    ELSE ScanBlocks(blks, Tail(ks), ScanBlock(blks[Head(ks)], d))

\* the fixed initial values written after the scan
FallbackValues(vinit) ==
    LET fixed == [len |-> Num(0), i |-> Num(1), j |-> Num(1), k |-> Num(1),
                  result |-> Str(""), separator |-> Str(""), current |-> Str(""),
                  next |-> Str("")]
    IN  [x \in DOMAIN vinit \cup DOMAIN fixed |->
            IF x \in DOMAIN fixed THEN fixed[x] ELSE vinit[x]]

\* declarations in which every fixed initial value declares its variable
DeclarationsOfFallbacks(blks, ks, vs, ls) ==
    LET d1 == IF vs.shape = "none" THEN NoDeclarations
              ELSE ExplicitVariables(vs.items, NoDeclarations)
        d2 == IF ls.shape = "none" THEN d1 ELSE ExplicitLists(ls.items, d1)
        d3 == ScanBlocks(blks, ks, d2)
        IsNew(name) == \A m \in 1..Len(d3.vars) : d3.vars[m] # name
    IN  [d3 EXCEPT !.vinit = FallbackValues(d3.vinit),
                   !.vars = d3.vars
                      \o SelectSeq(<<"len", "i", "j", "k", "result", "separator",
                                     "current", "next">>, IsNew)]

\* the declarations generateJavaScriptFromBlocks collects, before emission
Declarations(blks, ks, vs, ls) ==
    LET d1 == IF vs.shape = "none" THEN NoDeclarations
              ELSE ExplicitVariables(vs.items, NoDeclarations)
        d2 == IF ls.shape = "none" THEN d1 ELSE ExplicitLists(ls.items, d1)
        d3 == ScanBlocks(blks, ks, d2)
    IN  [d3 EXCEPT !.vinit = FallbackValues(d3.vinit)]

\* typeof value === 'string' ? `"${escapeString(value)}"` : value
ValueStr(value) ==
    IF value.t = "str" THEN "\"" \o EscapeString(value.s) \o "\"" ELSE ValText(value)

\* the `let` line of a variable
LetLine(varName, value) ==
    Line(0, "let " \o varName \o " = " \o ValueStr(value) \o ";")

\* the variable declarations and the blank line after them
VariableLines(d) ==
    IF d.vars = <<>> THEN <<>>
    ELSE [n \in 1..Len(d.vars) |-> LetLine(d.vars[n], d.vinit[d.vars[n]])]
         \o <<Line(0, "")>>

\* the initialiser line of a list without the case of the list numbers
ListLineUnseeded(listName, items) ==
    IF Len(items) > 0
    THEN Line(0, "list.newList(\"" \o listName \o "\", ["
                     \o Join([n \in 1..Len(items) |-> ValueStr(items[n])])
                     \o "], false);")
    ELSE Line(0, "list.createList(\"" \o listName \o "\");")

\* the initialiser line of a list
ListLine(listName, items) ==
    IF listName = "numbers"
    THEN Line(0, "list.newList(\"numbers\", [1, 2, 3, 4, 5, 6, 7, 8, 9, 10], false);")
    ELSE IF Len(items) > 0
    THEN Line(0, "list.newList(\"" \o listName \o "\", ["
                     \o Join([n \in 1..Len(items) |-> ValueStr(items[n])])
                     \o "], false);")
    ELSE Line(0, "list.createList(\"" \o listName \o "\");")

\* the list initialisers and the blank line after them
ListLines(d) ==
    IF d.lsts = <<>> THEN <<>>
    ELSE [n \in 1..Len(d.lsts) |-> ListLine(d.lsts[n], d.linit[d.lsts[n]])]
         \o <<Line(0, "")>>

\* topLevelBlocks.forEach: each entry's text and a newline after it
RECURSIVE MainCode(_, _)
MainCode(blks, topLevelBlocks) ==
    IF topLevelBlocks = <<>> THEN Ok(<<>>)
    ELSE Bind(DecompileBlock(blks, Head(topLevelBlocks), blks[Head(topLevelBlocks)],
                             0, 1),
              LAMBDA first :
            IF first.err # "none" THEN first
            ELSE Bind(MainCode(blks, Tail(topLevelBlocks)), LAMBDA rest :
                    IF rest.err # "none" THEN rest
                    ELSE Ok(first.out \o <<Line(0, "")>> \o rest.out)))

\* generateJavaScriptFromBlocks(blocks, variables, lists): [err, out]
GenerateJavaScriptFromBlocks(blks, ks, vs, ls) ==
    IF \E b \in DOMAIN blks : ~HasOpcode(blks[b]) THEN Raise("TypeError")
    ELSE Bind(Declarations(blks, ks, vs, ls), LAMBDA d :
         Bind(FindTopLevelBlocks(blks, ks), LAMBDA top :
         Bind(MainCode(blks, top.ids), LAMBDA main :
            LET head == <<Line(0, "// Decompiled from Scratch project"), Line(0, "")>>
                           \o VariableLines(d) \o ListLines(d)
            IN  IF top.err # "none" THEN Raise(top.err)
                ELSE IF top.ids = <<>>
                THEN Ok(head \o <<Line(0, "// No blocks found")>>)
                ELSE IF main.err # "none" THEN Raise(main.err)
                ELSE Ok(head \o <<Line(0, "// Main code")>> \o main.out))))

(***************************************************************************)
(* The inputs the specifications draw from                                 *)
(***************************************************************************)
AllIds == <<"a", "b", "c", "d">>

\* Object.keys(blocks) of the block maps drawn
Keys == SubSeq(AllIds, 1, NumBlocks)
BlockIds == {Keys[n] : n \in 1..NumBlocks}

\* an identifier no block map holds
Dangling == "zz"

NextChoices == {""} \cup BlockIds \cup {Dangling}
BodyChoices == {AbsentInput} \cup {RefInput(id) : id \in BlockIds \cup {Dangling}}

\* a block given by what it links to
Linked(opcode, next, inputs) ==
    Block(opcode, next, inputs,
          CASE opcode = "looks_say" -> [MESSAGE |-> Str("hello")]
            [] opcode = "data_setvariableto" -> [VARIABLE |-> Str("score")]
            [] opcode = "control_repeat" -> [TIMES |-> Str("10")]
            [] opcode = "procedures_definition" -> [custom_block |-> Str("greet %s %s")]
            [] OTHER -> NoMap)

\* inputs with the keys whose input is present
Inputs(candidate) ==
    [name \in {n \in DOMAIN candidate : candidate[n].k # "absent"} |-> candidate[name]]

\* statements and events that link to a next block only
PlainShapes ==
    {Linked(opcode, next, NoMap) :
        opcode \in {"event_whenflagclicked", "event_whenkeypressed", "looks_say",
                    "motion_setx"},
        next \in NextChoices}

\* the blocks a chain leads to
FollowerShapes ==
    {Linked(opcode, next, NoMap) :
        opcode \in {"event_whenflagclicked", "looks_say"}, next \in NextChoices}

\* every block with a body: loops, conditionals and procedure definitions
ControlShapes ==
    {Linked(opcode, next, Inputs([SUBSTACK |-> body])) :
        opcode \in {"control_repeat", "control_repeat_until", "control_if"},
        next \in NextChoices, body \in BodyChoices}
    \cup {Linked("procedures_definition", next,
                 Inputs([custom_block_substack |-> body])) :
            next \in NextChoices, body \in BodyChoices}
    \cup {Linked("control_if_else", next,
                 Inputs([SUBSTACK |-> body, SUBSTACK2 |-> alternate])) :
            next \in NextChoices, body \in BodyChoices, alternate \in BodyChoices}

\* block maps whose first block takes every shape and whose other blocks are
\* plain
ChainGraphs ==
    {[id \in BlockIds |-> IF id = Keys[1] THEN first ELSE others[id]] :
        first \in PlainShapes \cup ControlShapes,
        others \in [BlockIds \ {Keys[1]} -> FollowerShapes]}

\* blocks that differ in what findTopLevelBlocks reads: the opcode's
\* category, next and the shape of an input
TopShapes ==
    {Linked(opcode, next, Inputs([SUBSTACK |-> input])) :
        opcode \in {"event_whenflagclicked", "control_if"},
        next \in NextChoices,
        input \in BodyChoices \cup {LitInput(Str("5"))}}

TopGraphs == [BlockIds -> TopShapes]

NoEntries == [shape |-> "object", items |-> <<>>]

(***************************************************************************)
(* createjvavscratchProject                                                *)
(* targets is projectJson.targets: each target is [isStage, name, blocks,  *)
(* keys].  projectDir is [exists, files]: the directory and the paths of   *)
(* the files under it.  tempHasJson says tempDir holds project.json.       *)
(***************************************************************************)
FlagSay ==
    [id \in {"a", "b"} |->
        IF id = "a" THEN Linked("event_whenflagclicked", "b", NoMap)
        ELSE Linked("looks_say", "", NoMap)]

FlagCycle ==
    [id \in {"a", "b"} |->
        IF id = "a" THEN Linked("event_whenflagclicked", "b", NoMap)
        ELSE Linked("looks_say", "a", NoMap)]

\* the block maps of a project's targets
ActorGraphs ==
    {[blocks |-> NoMap, keys |-> <<>>],
     [blocks |-> FlagSay, keys |-> <<"a", "b">>],
     [blocks |-> FlagCycle, keys |-> <<"a", "b">>]}

SpriteNames == <<"Sprite1", "Sprite2", "Sprite3", "Sprite4">>

Target(isStage, name, g) ==
    [isStage |-> isStage, name |-> name, blocks |-> g.blocks, keys |-> g.keys]

\* projectJson.targets: the stage, when there is one, then the sprites
Projects ==
    {stage \o [n \in 1..count |-> Target(FALSE, SpriteNames[n], graphs[n])] :
        stage \in {<<>>} \cup {<<Target(TRUE, "Stage", g)>> : g \in ActorGraphs},
        count \in 0..MaxSprites, graphs \in [1..MaxSprites -> ActorGraphs]}

StageFile == "src/Stage/Stage.js"
SpriteFile(name) == "src/" \o name \o "/" \o name \o ".js"
ManifestFile == "project.d.json"
ConfigFile == "jvavscratch.toml"

\* projectJson.targets?.find(t => t.isStage), as a sequence of at most one
StageTargets(ts) == SelectSeq(ts, LAMBDA t : t.isStage)

\* generateJavaScriptFromBlocks on a target's blocks
GenerateTarget(t) ==
    GenerateJavaScriptFromBlocks(t.blocks, t.keys, NoEntries, NoEntries)

\* generateJavaScriptFromBlocks(stageBlocks, stageVariables, stageLists)
GenerateStage(ts) ==
    IF StageTargets(ts) = <<>>
    THEN GenerateJavaScriptFromBlocks(NoMap, <<>>, NoEntries, NoEntries)
    ELSE GenerateTarget(StageTargets(ts)[1])

Unused == <<blocks, keys, variables, lists, arg>>

InitProject ==
    /\ pc = "start"
    /\ tempHasJson \in BOOLEAN
    /\ targets \in Projects
    /\ projectDir \in {[exists |-> FALSE, files |-> {}],
                       [exists |-> TRUE, files |-> {}],
                       [exists |-> TRUE, files |-> {"old.txt"}]}
    /\ idx = 0
    /\ sprites = <<>>
    /\ ret = Ok(<<>>)
    /\ blocks = NoMap /\ keys = <<>> /\ variables = NoEntries /\ lists = NoEntries
    /\ arg = ""

\* lines 47-52: the project directory is emptied, or made
PrepareDirectory ==
    /\ pc = "start"
    /\ projectDir' = [exists |-> TRUE, files |-> {}]
    /\ pc' = "descriptor"
    /\ UNCHANGED <<tempHasJson, targets, idx, sprites, ret, Unused>>

\* lines 54-60: project.json is looked for and read
ReadDescriptor ==
    /\ pc = "descriptor"
    /\ IF tempHasJson
       THEN pc' = "scaffold" /\ ret' = ret
       ELSE pc' = "failed" /\ ret' = Raise("Error")
    /\ UNCHANGED <<tempHasJson, targets, projectDir, idx, sprites, Unused>>

\* lines 62-87: the configuration file and the directories
Scaffold ==
    /\ pc = "scaffold"
    /\ projectDir' = [projectDir EXCEPT !.files = @ \cup {ConfigFile}]
    /\ sprites' = <<"Stage">>
    /\ pc' = "stage"
    /\ UNCHANGED <<tempHasJson, targets, idx, ret, Unused>>

\* lines 89-96: the stage's code is generated and written
WriteStage ==
    /\ pc = "stage"
    /\ LET stageCode == GenerateStage(targets)
       IN  IF stageCode.err # "none"
           THEN /\ pc' = "failed"
                /\ ret' = Raise(stageCode.err)
                /\ UNCHANGED <<projectDir, idx>>
           ELSE /\ projectDir' = [projectDir EXCEPT !.files = @ \cup {StageFile}]
                /\ idx' = 1
                /\ pc' = "sprites"
                /\ ret' = ret
    /\ UNCHANGED <<tempHasJson, targets, sprites, Unused>>

\* lines 100-114: one turn of the loop over the targets
WriteSprite ==
    /\ pc = "sprites"
    /\ idx <= Len(targets)
    /\ LET sprite == targets[idx]
           spriteCode == GenerateTarget(sprite)
       IN  IF sprite.isStage
           THEN idx' = idx + 1 /\ UNCHANGED <<pc, ret, projectDir, sprites>>
           ELSE /\ sprites' = Append(sprites, sprite.name)
                /\ IF spriteCode.err # "none"
                   THEN /\ pc' = "failed"
                        /\ ret' = Raise(spriteCode.err)
                        /\ UNCHANGED <<projectDir, idx>>
                   ELSE /\ projectDir' = [projectDir EXCEPT
                                            !.files = @ \cup {SpriteFile(sprite.name)}]
                        /\ idx' = idx + 1
                        /\ UNCHANGED <<pc, ret>>
    /\ UNCHANGED <<tempHasJson, targets, Unused>>

\* lines 116-120: project.d.json lists the sprites
WriteManifest ==
    /\ pc = "sprites"
    /\ idx > Len(targets)
    /\ projectDir' = [projectDir EXCEPT !.files = @ \cup {ManifestFile}]
    /\ pc' = "assets"
    /\ UNCHANGED <<tempHasJson, targets, idx, sprites, ret, Unused>>

\* lines 122-126: copyAssets and fillDefaults
CopyAssets ==
    /\ pc = "assets"
    /\ pc' = "done"
    /\ UNCHANGED <<tempHasJson, targets, projectDir, idx, sprites, ret, Unused>>

Next ==
    \/ PrepareDirectory
    \/ ReadDescriptor
    \/ Scaffold
    \/ WriteStage
    \/ WriteSprite
    \/ WriteManifest
    \/ CopyAssets

Spec == InitProject /\ [][Next]_vars

(***************************************************************************)
(* The pure functions, each applied to inputs drawn by Init                *)
(***************************************************************************)
NoProject ==
    /\ tempHasJson = TRUE
    /\ targets = <<>>
    /\ projectDir = [exists |-> FALSE, files |-> {}]
    /\ idx = 0
    /\ sprites = <<>>

Project == <<tempHasJson, targets, projectDir, idx, sprites>>

\* findTopLevelBlocks on every block map of TopGraphs
InitTop ==
    /\ pc = "call"
    /\ blocks \in TopGraphs
    /\ keys = Keys
    /\ variables = NoEntries /\ lists = NoEntries
    /\ arg = ""
    /\ ret = [err |-> "none", ids |-> <<>>]
    /\ NoProject

CallFindTopLevelBlocks ==
    /\ pc = "call"
    /\ ret' = FindTopLevelBlocks(blocks, keys)
    /\ pc' = "returned"
    /\ UNCHANGED <<blocks, keys, variables, lists, arg, Project>>

SpecTop == InitTop /\ [][CallFindTopLevelBlocks]_vars

\* decompileBlock on every block of every block map of ChainGraphs
InitDecompile ==
    /\ pc = "call"
    /\ blocks \in ChainGraphs
    /\ keys = Keys
    /\ variables = NoEntries /\ lists = NoEntries
    /\ arg \in BlockIds
    /\ ret = Ok(<<>>)
    /\ NoProject

CallDecompileBlock ==
    /\ pc = "call"
    /\ ret' = DecompileBlock(blocks, arg, blocks[arg], 0, 1)
    /\ pc' = "returned"
    /\ UNCHANGED <<blocks, keys, variables, lists, arg, Project>>

SpecDecompile == InitDecompile /\ [][CallDecompileBlock]_vars

\* generateJavaScriptFromBlocks on every block map of ChainGraphs
InitGenerate ==
    /\ pc = "call"
    /\ blocks \in ChainGraphs
    /\ keys = Keys
    /\ variables = NoEntries /\ lists = NoEntries
    /\ arg = ""
    /\ ret = Ok(<<>>)
    /\ NoProject

CallGenerate ==
    /\ pc = "call"
    /\ ret' = GenerateJavaScriptFromBlocks(blocks, keys, variables, lists)
    /\ pc' = "returned"
    /\ UNCHANGED <<blocks, keys, variables, lists, arg, Project>>

SpecGenerate == InitGenerate /\ [][CallGenerate]_vars

\* the names of variables: a plain name, a name with a fixed initial value,
\* the cloud marker alone and a cloud variable
VariableNames == {"score", "i", CloudMarker, "CLOUD score"}

\* explicit declarations: at most MaxDecls pairs [name, value]
VariableEntries ==
    {[pair |-> TRUE, name |-> Str(name), value |-> value] :
        name \in VariableNames, value \in {Num(7), Str("x"), Undef}}

VariableInputs ==
    {[shape |-> "none", items |-> <<>>]}
    \cup {[shape |-> shape, items |-> items] :
            shape \in {"array", "object"},
            items \in UNION {[1..n -> VariableEntries] : n \in 0..MaxDecls}}

ListInputs ==
    {NoEntries,
     [shape |-> "array",
      items |-> <<[pair |-> TRUE, name |-> Str("numbers"), items |-> <<>>]>>],
     [shape |-> "object",
      items |-> <<[pair |-> TRUE, name |-> Str("xs"),
                   items |-> <<Num(1), Str("a")>>]>>]}

\* a green-flag script of one block with the given opcode and fields
Script(opcode, inputs, fields) ==
    [id \in {"a", "b"} |->
        IF id = "a" THEN Linked("event_whenflagclicked", "b", NoMap)
        ELSE Block(opcode, "", inputs, fields)]

\* the block maps the declarations are scanned from
ScanGraphs ==
    {FlagSay}
    \cup {Script(opcode, [VALUE |-> LitInput(Str("5"))], [VARIABLE |-> Str(name)]) :
            opcode \in {"data_setvariableto", "data_changevariableby"},
            name \in VariableNames}
    \cup {Script("data_addtolist", [ITEM |-> LitInput(Str("5"))], [LIST |-> Str(name)]) :
            name \in {"numbers", "xs"}}

\* generateJavaScriptFromBlocks on explicit declarations and scanned blocks
InitDeclare ==
    /\ pc = "call"
    /\ blocks \in ScanGraphs
    /\ keys = <<"a", "b">>
    /\ variables \in VariableInputs
    /\ lists \in ListInputs
    /\ arg = ""
    /\ ret = Ok(<<>>)
    /\ NoProject

SpecDeclare == InitDeclare /\ [][CallGenerate]_vars

\* the blocks an input may reference: expressions, statements, and blocks
\* that are not well formed
OperandChoices(later) ==
    {AbsentInput, LitInput(Str("5"))} \cup {RefInput(id) : id \in later}

InputBlockShapes(later) ==
    {Block(opcode, "", Inputs([OPERAND1 |-> left, OPERAND2 |-> LitInput(Num(3))]),
           NoMap) :
        opcode \in {"operator_add", "operator_gt"}, left \in OperandChoices(later)}
    \cup {Block("data_variable", "", NoMap, [VARIABLE |-> Str("score")]),
          Block("looks_say", "", NoMap, [MESSAGE |-> Str("say \"hi\"")]),
          Block("looks_say", "", NoMap, [MESSAGE |-> Num(5)]),
          Block("sensing_timer", "", NoMap, NoMap),
          [next |-> "", inputs |-> NoMap, fields |-> NoMap, mutation |-> NoMutation]}

\* block maps whose input references lead to later keys only
RECURSIVE InputGraphsFrom(_)
InputGraphsFrom(n) ==
    IF n > NumBlocks THEN {NoMap}
    ELSE {[id \in DOMAIN rest \cup {Keys[n]} |->
              IF id = Keys[n] THEN first ELSE rest[id]] :
            first \in InputBlockShapes({Keys[m] : m \in (n + 1)..NumBlocks}),
            rest \in InputGraphsFrom(n + 1)}

InputGraphs == InputGraphsFrom(1)

\* the inputs processInput is given
InputChoices ==
    {AbsentInput, ScalarInput, ShortInput, LitShortInput, OtherInput}
    \cup {RefInput(id) : id \in BlockIds \cup {Dangling, ""}}
    \cup {LitInput(v) : v \in {Str("5"), Str("05"), Str("hello"), Str("i"), Str(""),
                               Str("say \"hi\""), Num(3), Null, Undef}}

\* processInput on every input of InputChoices over the block maps of
\* InputGraphs
InitInput ==
    /\ pc = "call"
    /\ blocks \in InputGraphs
    /\ keys = Keys
    /\ variables = NoEntries /\ lists = NoEntries
    /\ arg \in InputChoices
    /\ ret = Ok(<<>>)
    /\ NoProject

CallProcessInput ==
    /\ pc = "call"
    /\ ret' = ProcessInput(blocks, arg, 0, 1)
    /\ pc' = "returned"
    /\ UNCHANGED <<blocks, keys, variables, lists, arg, Project>>

SpecInput == InitInput /\ [][CallProcessInput]_vars

\* the procedure calls decompileBlock is given: the declared input
\* identifiers, and for each of them an input or none
CallInputIds == {<<>>, <<"x">>, <<"x", "y">>, <<"y", "x">>}

CallInputChoices ==
    {AbsentInput, LitInput(Str("5")), LitInput(Str("hello")), RefInput(Dangling)}
    \cup {RefInput(id) : id \in BlockIds \ {Keys[1]}}

CallShapes ==
    {[Block("procedures_call", next, Inputs([x |-> x, y |-> y]), NoMap)
        EXCEPT !.mutation = [proccode |-> proccode, hasInputIds |-> TRUE,
                             inputids |-> inputIds, hasParamNames |-> FALSE,
                             paramnames |-> <<>>]] :
        next \in {""} \cup (BlockIds \ {Keys[1]}),
        x \in CallInputChoices, y \in CallInputChoices,
        inputIds \in CallInputIds,
        proccode \in {Undef, Str("greet %s %s")}}

\* the blocks a call's inputs and next lead to
OperandShapes ==
    {Block("data_variable", "", NoMap, [VARIABLE |-> Str("score")]),
     Block("operator_add", "",
           Inputs([OPERAND1 |-> LitInput(Str("1")), OPERAND2 |-> LitInput(Str("2"))]),
           NoMap),
     Linked("looks_say", "", NoMap)}

CallGraphs ==
    {[id \in BlockIds |-> IF id = Keys[1] THEN first ELSE others[id]] :
        first \in CallShapes,
        others \in [BlockIds \ {Keys[1]} -> OperandShapes]}

\* decompileBlock on the first block of every block map of CallGraphs
InitCall ==
    /\ pc = "call"
    /\ blocks \in CallGraphs
    /\ keys = Keys
    /\ variables = NoEntries /\ lists = NoEntries
    /\ arg = Keys[1]
    /\ ret = Ok(<<>>)
    /\ NoProject

SpecCall == InitCall /\ [][CallDecompileBlock]_vars

\* scripts that set variables: each block is a green-flag block or sets one
\* of four variables, and leads to no block or to another block
AssignedNames == {"score", "i", CloudMarker, "CLOUD score"}

AssignShapes ==
    {Linked("event_whenflagclicked", next, NoMap) : next \in {""} \cup BlockIds}
    \cup {Block("data_setvariableto", next, [VALUE |-> LitInput(Str("5"))],
                [VARIABLE |-> Str(name)]) :
            next \in {""} \cup BlockIds, name \in AssignedNames}

AssignGraphs == [BlockIds -> AssignShapes]

\* explicit declarations of at most MaxDecls of two variables
ExplicitNameChoices == {"score", "total"}

ExplicitInputs ==
    {[shape |-> shape, items |-> items] :
        shape \in {"array", "object"},
        items \in UNION {[1..n -> {[pair |-> TRUE, name |-> Str(name), value |-> Num(7)] :
                                      name \in ExplicitNameChoices}] :
                         n \in 0..MaxDecls}}

\* generateJavaScriptFromBlocks on the scripts of AssignGraphs with the
\* declarations of ExplicitInputs
InitAssign ==
    /\ pc = "call"
    /\ blocks \in AssignGraphs
    /\ keys = Keys
    /\ variables \in ExplicitInputs
    /\ lists = NoEntries
    /\ arg = ""
    /\ ret = Ok(<<>>)
    /\ NoProject

SpecAssign == InitAssign /\ [][CallGenerate]_vars

\* the binary operators decompileBlock is given: every opcode, with operands
\* that are absent, literals or references, and with or without a next block
BinaryOpcodes ==
    {"operator_equals", "operator_greaterthan", "operator_gt", "operator_lessthan",
     "operator_lt", "operator_add", "operator_subtract", "operator_multiply",
     "operator_divide"}

BinaryShapes ==
    {Block(opcode, next, Inputs([OPERAND1 |-> left, OPERAND2 |-> right]), NoMap) :
        opcode \in BinaryOpcodes,
        next \in {""} \cup (BlockIds \ {Keys[1]}),
        left \in {AbsentInput, LitInput(Str("5")), LitInput(Str("hello")),
                  RefInput(Dangling)}
                 \cup {RefInput(id) : id \in BlockIds \ {Keys[1]}},
        right \in {LitInput(Num(3))} \cup {RefInput(id) : id \in BlockIds \ {Keys[1]}}}

OperatorGraphs ==
    {[id \in BlockIds |-> IF id = Keys[1] THEN first ELSE rest[id]] :
        first \in BinaryShapes, rest \in InputGraphsFrom(2)}

\* decompileBlock on the first block of every block map of OperatorGraphs
InitOperator ==
    /\ pc = "call"
    /\ blocks \in OperatorGraphs
    /\ keys = Keys
    /\ variables = NoEntries /\ lists = NoEntries
    /\ arg = Keys[1]
    /\ ret = Ok(<<>>)
    /\ NoProject

SpecOperator == InitOperator /\ [][CallDecompileBlock]_vars

\* nested scripts: every block is a say block, a counting loop or an if/else
\* pair, its next and its bodies name no block or any block of the map
NestChoices == {AbsentInput} \cup {RefInput(id) : id \in BlockIds}

NestShapes ==
    {Linked("looks_say", next, NoMap) : next \in {""} \cup BlockIds}
    \cup {Linked("control_repeat", next, Inputs([SUBSTACK |-> body])) :
            next \in {""} \cup BlockIds, body \in NestChoices}
    \cup {Linked("control_if_else", next,
                 Inputs([SUBSTACK |-> body, SUBSTACK2 |-> alternate])) :
            next \in {""} \cup BlockIds, body \in NestChoices,
            alternate \in {AbsentInput, RefInput(Keys[NumBlocks])}}

NestGraphs == [BlockIds -> NestShapes]

\* decompileBlock on the first block of every block map of NestGraphs
InitNest ==
    /\ pc = "call"
    /\ blocks \in NestGraphs
    /\ keys = Keys
    /\ variables = NoEntries /\ lists = NoEntries
    /\ arg = Keys[1]
    /\ ret = Ok(<<>>)
    /\ NoProject

SpecNest == InitNest /\ [][CallDecompileBlock]_vars

\* statement blocks whose opcode no case of the switch names, one in each
\* branch of the default case, one with motion_ further in and one with none
\* of the four parts
UnknownOpcodes ==
    {"motion_setx", "looks_cleargraphiceffects", "sound_cleareffects",
     "sensing_resettimer", "ext_motion_tilt", "pen_clear"}

UnknownShapes ==
    {Linked(opcode, next, NoMap) : opcode \in UnknownOpcodes, next \in NextChoices}

UnknownGraphs ==
    {[id \in BlockIds |-> IF id = Keys[1] THEN first ELSE rest[id]] :
        first \in UnknownShapes,
        rest \in [BlockIds -> FollowerShapes \cup UnknownShapes]}

\* decompileBlock on the first block of every block map of UnknownGraphs
InitUnknown ==
    /\ pc = "call"
    /\ blocks \in UnknownGraphs
    /\ keys = Keys
    /\ variables = NoEntries /\ lists = NoEntries
    /\ arg = Keys[1]
    /\ ret = Ok(<<>>)
    /\ NoProject

SpecUnknown == InitUnknown /\ [][CallDecompileBlock]_vars

(***************************************************************************)
(* Properties                                                              *)
(***************************************************************************)
Range(seq) == {seq[n] : n \in 1..Len(seq)}

\* block a's next is b and b's next is a
HasNextCycle(blks) ==
    \E a, b \in DOMAIN blks : a # b /\ blks[a].next = b /\ blks[b].next = a

\* C1: generation for an actor whose blocks hold a cyclic next chain returns
\* and reports StructuralOverflow, whatever the opcodes on the cycle.
C1_CycleReportsStructuralOverflow ==
    (pc = "returned" /\ HasNextCycle(blocks)) => ret.err = "StructuralOverflow"

\* the actors of the project: the stage and every target that is no stage
Actors == {"Stage"} \cup {targets[n].name : n \in 1..Len(targets)}

ActorFile(name) == IF name = "Stage" THEN StageFile ELSE SpriteFile(name)

\* the result of code generation for an actor
ActorCode(name) ==
    IF name = "Stage" THEN GenerateStage(targets)
    ELSE GenerateTarget(CHOOSE t \in Range(targets) : t.name = name)

\* C2: when code generation fails for one actor, the file of every other
\* actor and project.d.json are still written once the call has ended.
C2_FailureDoesNotAbortBatch ==
    (/\ pc \in {"done", "failed"}
     /\ tempHasJson
     /\ \E failing \in Actors : ActorCode(failing).err # "none")
    => /\ \A other \in Actors :
            ActorCode(other).err = "none" => ActorFile(other) \in projectDir.files
       /\ ManifestFile \in projectDir.files

\* the entry blocks of the block map
IsEntry(blockId) == blockId \in Range(FindTopLevelBlocks(blocks, keys).ids)

\* the lines a statement block emits for itself and its bodies, without its
\* next chain
OwnLines(blks, block, indentation) ==
    IF block.opcode = "event_whenflagclicked"
    THEN <<Line(indentation, "// When green flag clicked")>>
    ELSE Switch(blks, block, indentation, 1).out

\* the lines of the blocks on the next chain from blockId, each block once,
\* in chain order; steps bounds the length of the chain
RECURSIVE ChainLines(_, _, _)
ChainLines(blks, blockId, steps) ==
    IF steps = 0 \/ blockId \notin DOMAIN blks THEN <<>>
    ELSE OwnLines(blks, blks[blockId], 0)
         \o ChainLines(blks, blks[blockId].next, steps - 1)

\* C3: the text decompileBlock produces for an entry block holds the lines of
\* every block on its next chain exactly once and in chain order.
C3_ChainEmittedOnceInOrder ==
    (pc = "returned" /\ IsEntry(arg) /\ ret.err = "none")
    => ret.out = ChainLines(blocks, arg, NumBlocks)

\* the identifier is the second element of some block's input tuple
IsInputOfSome(blockId) ==
    \E b \in DOMAIN blocks : \E name \in DOMAIN blocks[b].inputs :
        blocks[b].inputs[name].k = "ref" /\ blocks[b].inputs[name].ref = blockId

\* the identifier is the value of some block's next field
IsNextOfSome(blockId) == \E b \in DOMAIN blocks : blocks[b].next = blockId

IsEvent(blockId) == blocks[blockId].opcode \in EventOpcodes

\* C4: findTopLevelBlocks returns exactly the identifiers that no input
\* tuple and no next field names, together with every event block.
C4_TopLevelSet ==
    pc = "returned"
    => Range(ret.ids) =
          {id \in DOMAIN blocks : ~IsInputOfSome(id) /\ ~IsNextOfSome(id)}
          \cup {id \in DOMAIN blocks : IsEvent(id)}

\* an event block that another block names is among the entries returned
C4_Witness ==
    /\ pc = "returned"
    /\ \E id \in Range(ret.ids) :
          IsEvent(id) /\ (IsNextOfSome(id) \/ IsInputOfSome(id))
    /\ \E id \in DOMAIN blocks : id \notin Range(ret.ids)

\* the position of an identifier in Object.keys(blocks)
KeyIndex(blockId) == CHOOSE n \in 1..Len(keys) : keys[n] = blockId

\* C5: the entries are returned in the key order of the block map, event
\* blocks that are children included.
C5_EntriesInKeyOrder ==
    pc = "returned"
    => \A m, n \in 1..Len(ret.ids) :
          m < n => KeyIndex(ret.ids[m]) < KeyIndex(ret.ids[n])

\* the explicit declaration variables.items[n] is the last one of its name
IsLastOfName(n) ==
    \A m \in (n + 1)..Len(variables.items) :
        variables.items[m].name # variables.items[n].name

\* C6: a variable declared explicitly with initial value v gets the line
\* `let name = v;`, also when its name is one of len, i, j, k, result,
\* separator, current, next.
C6_ExplicitValueWins ==
    (pc = "returned" /\ ret.err = "none" /\ variables.shape # "none")
    => \A n \in 1..Len(variables.items) :
          LET declared == variables.items[n]
          IN  (/\ ~BeginsWithCloud(declared.name.s)
               /\ declared.value # Undef
               /\ IsLastOfName(n))
              => LetLine(declared.name.s, declared.value) \in Range(ret.out)

\* the initial values a declaration line of the inputs drawn can carry
DeclaredValues == {Num(7), Str("x"), Str(""), Num(0), Num(1)}

\* C7: the generated text holds no `let` line for a name that begins with
\* the cloud marker, whether the name is declared explicitly or found in a
\* set/change block.
C7_NoCloudDeclaration ==
    (pc = "returned" /\ ret.err = "none")
    => \A name \in {n \in VariableNames : BeginsWithCloud(n)} :
          \A value \in DeclaredValues : LetLine(name, value) \notin Range(ret.out)

\* the input is absent, no tuple, shorter than two elements, or names an
\* identifier the block map does not hold
IsUnresolvedInput(input) ==
    \/ input.k \in {"absent", "scalar", "short"}
    \/ input.k = "ref" /\ input.ref \notin DOMAIN blocks

\* C8: processInput never raises, and returns the literal null for an input
\* that is absent, malformed or dangling.
C8_ProcessInputNeverRaises ==
    pc = "returned"
    => /\ ret.err = "none"
       /\ IsUnresolvedInput(arg) => ret.out = <<Expr("null")>>

\* the opcodes of the blocks with a body, and the input that names the body
BodyOpcodes ==
    {"control_repeat", "control_repeat_until", "control_if", "control_if_else",
     "procedures_definition"}

SubstackName(opcode) ==
    IF opcode = "procedures_definition" THEN "custom_block_substack" ELSE "SUBSTACK"

\* the block decompileBlock was called on has a body input that names an
\* identifier absent from the block map
HasDanglingSubstack ==
    /\ blocks[arg].opcode \in BodyOpcodes
    /\ GetInput(blocks[arg], SubstackName(blocks[arg].opcode)).k = "ref"
    /\ GetInput(blocks[arg], SubstackName(blocks[arg].opcode)).ref \notin DOMAIN blocks

\* the header line of a block with a body whose condition input is absent
HeaderLine(block) ==
    CASE block.opcode = "control_repeat" ->
            Line(0, "for (let i = 0; i < " \o block.fields.TIMES.s \o "; i++) {")
      [] block.opcode = "control_repeat_until" -> Line(0, "while (null) {")
      [] block.opcode \in {"control_if", "control_if_else"} -> Line(0, "if (null) {")
      [] OTHER -> Line(0, "function greet() {")

\* the index of the line that closes the construct when its body is empty
CloserIndex(block) ==
    IF block.opcode = "control_if_else"
    THEN 3 + Len(Body(blocks, block, "SUBSTACK2", 0, 1).out)
    ELSE 2

\* C9: decompileBlock on a block with a body whose substack names an absent
\* identifier does not raise, emits the header line directly followed by the
\* rest of the construct up to its closing brace, and then the text of the
\* block's next chain.
C9_DanglingSubstackKeepsConstruct ==
    (pc = "returned" /\ HasDanglingSubstack)
    => /\ ret.err = "none"
       /\ Len(ret.out) >= CloserIndex(blocks[arg])
       /\ ret.out[1] = HeaderLine(blocks[arg])
       /\ ret.out[CloserIndex(blocks[arg])] = Line(0, "}")
       /\ SubSeq(ret.out, CloserIndex(blocks[arg]) + 1, Len(ret.out))
             = NextChain(blocks, blocks[arg], 0, 1).out

\* C10: the text of control_if and control_if_else holds an else line iff
\* the SUBSTACK2 input resolves to a block.
C10_ElseIffAlternateBody ==
    (/\ pc = "returned"
     /\ ret.err = "none"
     /\ blocks[arg].opcode \in {"control_if", "control_if_else"})
    => (Line(0, "} else {") \in Range(ret.out)
           <=> BodyResolves(blocks, blocks[arg], "SUBSTACK2"))

\* the text of the k-th declared input of a procedures_call block
DeclaredArgument(block, k) ==
    Txt(ProcessInput(blocks, GetInput(block, block.mutation.inputids[k]), 0, 2))

\* the name a procedures_call block calls
CalledName(block) ==
    IF block.mutation.proccode.t = "str"
    THEN FirstWord(block.mutation.proccode.s) ELSE "customBlock"

\* C11: the call emitted for a procedures_call block has one argument per
\* identifier of mutation.inputids, in that order: the processInput text of
\* the input of that name, the literal null when the block has no such input.
C11_OneArgumentPerDeclaredInput ==
    (pc = "returned" /\ ret.err = "none" /\ blocks[arg].opcode = "procedures_call")
    => ret.out[1] =
          Line(0, CalledName(blocks[arg]) \o "("
                    \o Join([k \in 1..Len(blocks[arg].mutation.inputids) |->
                                DeclaredArgument(blocks[arg], k)])
                    \o ");")

\* C12: when project.json is missing from the extracted directory, no step of
\* createjvavscratchProject changes the project directory or its contents,
\* and the call never gets past the test for the descriptor.
C12_MissingDescriptorLeavesDirectory ==
    [][~tempHasJson => (projectDir' = projectDir /\ pc' # "scaffold")]_vars

\* the names of the explicit declarations, in the order of the input
ExplicitNames == [n \in 1..Len(variables.items) |-> variables.items[n].name.s]

IsAssignment(blockId) == blocks[blockId].opcode = "data_setvariableto"

\* the names the set blocks assign, in the key order of the block map
ScannedNames ==
    LET assigning == SelectSeq(keys, IsAssignment)
    IN  [n \in 1..Len(assigning) |-> blocks[assigning[n]].fields.VARIABLE.s]

\* the place at which a name is met first
FirstIndex(seq, name) ==
    CHOOSE k \in 1..Len(seq) : seq[k] = name /\ \A j \in 1..(k - 1) : seq[j] # name

\* the names a `let` line can declare, and the line's name
DeclarableNames == VariableNames \cup AssignedNames \cup ExplicitNameChoices

IsLetLine(piece) ==
    \E name \in DeclarableNames, value \in DeclaredValues : piece = LetLine(name, value)

LetName(piece) ==
    CHOOSE name \in DeclarableNames :
        \E value \in DeclaredValues : piece = LetLine(name, value)

\* the names of the `let` lines of a text, in the order of the lines
LetNames(out) ==
    LET letLines == SelectSeq(out, IsLetLine)
    IN  [n \in 1..Len(letLines) |-> LetName(letLines[n])]

\* the texts of the entries, each followed by an empty line
RECURSIVE EntryTexts(_, _)
EntryTexts(blks, ids) ==
    IF ids = <<>> THEN <<>>
    ELSE DecompileBlock(blks, Head(ids), blks[Head(ids)], 0, 1).out
         \o <<Line(0, "")>> \o EntryTexts(blks, Tail(ids))

\* the declaration lines of a text stand in discovery order, and its
\* entries in the order findTopLevelBlocks gives
InDiscoveryOrder(out) ==
    /\ \A names \in {LetNames(out)}, found \in {ExplicitNames \o ScannedNames} :
          \A p, q \in 1..Len(names) :
              p < q => FirstIndex(found, names[p]) < FirstIndex(found, names[q])
    /\ \A k \in 1..Len(out) :
          out[k] = Line(0, "// Main code")
          => SubSeq(out, k + 1, Len(out))
                = EntryTexts(blocks, FindTopLevelBlocks(blocks, keys).ids)

OperatorToken(opcode) ==
    CASE opcode = "operator_equals" -> "=="
      [] opcode \in {"operator_greaterthan", "operator_gt"} -> ">"
      [] opcode \in {"operator_lessthan", "operator_lt"} -> "<"
      [] opcode = "operator_add" -> "+"
      [] opcode = "operator_subtract" -> "-"
      [] opcode = "operator_multiply" -> "*"
      [] OTHER -> "/"

\* processInput of an operand of the block decompileBlock was called on
Operand(name) == ProcessInput(blocks, GetInput(blocks[arg], name), 0, 2)

\* C14: decompileBlock on a binary operator returns "<left> <op> <right>",
\* left and right being processInput of OPERAND1 and OPERAND2 and op the
\* token of the opcode, and nothing of the block's next chain; it raises
\* only what processInput of an operand raises.
C14_BinaryOperatorText ==
    (pc = "returned" /\ blocks[arg].opcode \in BinaryOpcodes)
    => \A left \in {Operand("OPERAND1")}, right \in {Operand("OPERAND2")} :
          IF left.err # "none" THEN ret = Raise(left.err)
          ELSE IF right.err # "none" THEN ret = Raise(right.err)
          ELSE ret = Ok(<<Expr(Txt(left) \o " " \o OperatorToken(blocks[arg].opcode)
                                 \o " " \o Txt(right))>>)

\* an operator over a nested operator, with a next block, has returned
C14_Witness ==
    /\ pc = "returned" /\ ret.err = "none"
    /\ blocks[arg].opcode \in BinaryOpcodes
    /\ NextResolves(blocks, blocks[arg])
    /\ GetInput(blocks[arg], "OPERAND1").k = "ref"
    /\ GetInput(blocks[arg], "OPERAND1").ref \in DOMAIN blocks
    /\ HasOpcode(blocks[GetInput(blocks[arg], "OPERAND1").ref])
    /\ blocks[GetInput(blocks[arg], "OPERAND1").ref].opcode \in BinaryOpcodes

\* the lines that open a body and the lines that close one
OpensBody(piece) ==
    piece.txt \in {"for (let i = 0; i < 10; i++) {", "if (null) {", "} else {"}

ClosesBody(piece) == piece.txt \in {"}", "} else {"}

\* the number of bodies the k-th line of a text stands in: the bodies opened
\* before it less the bodies closed up to it
EnclosingBodies(out, k) ==
    Cardinality({j \in 1..(k - 1) : OpensBody(out[j])})
        - Cardinality({j \in 1..k : ClosesBody(out[j])})

\* a counting loop of count 10 around one say block
IsRepeatAroundSay(blks, blockId) ==
    /\ blks[blockId].opcode = "control_repeat"
    /\ blks[blockId].next = ""
    /\ BodyResolves(blks, blks[blockId], "SUBSTACK")
    /\ blks[GetInput(blks[blockId], "SUBSTACK").ref].opcode = "looks_say"
    /\ blks[GetInput(blks[blockId], "SUBSTACK").ref].next = ""

\* C15: every line of the text of an entry is a line of its own, indented by
\* four spaces for each body it stands in: a body one level deeper than its
\* header, a successor at the level of its predecessor, the closing brace at
\* the level of the header.  A control_repeat of count 10 around one
\* looks_say block gives the loop header, one say line four spaces in, and
\* the closing brace.
C15_IndentationFollowsNesting ==
    (pc = "returned" /\ ret.err = "none")
    => /\ \A k \in 1..Len(ret.out) :
            /\ ret.out[k].nl
            /\ ret.out[k].ind = EnclosingBodies(ret.out, k)
            /\ RenderPiece(ret.out[k])
                  = Indent(EnclosingBodies(ret.out, k)) \o ret.out[k].txt \o "\n"
       /\ IsRepeatAroundSay(blocks, arg)
          => Render(ret.out)
                = "for (let i = 0; i < 10; i++) {\n"
                    \o "    looks.say(\"hello\");\n"
                    \o "}\n"

\* a construct nested in the body of another has been emitted
C15_Witness ==
    /\ pc = "returned" /\ ret.err = "none"
    /\ \E k \in 1..Len(ret.out) :
          /\ ret.out[k].ind >= 1
          /\ OpensBody(ret.out[k])
          /\ ret.out[k].txt # "} else {"
    /\ \E k \in 1..Len(ret.out) : ret.out[k].ind >= 1 /\ ret.out[k].txt = "}"

\* the k-th line of the text assigns the literal 5 to the variable
IsAssignmentLine(out, k, name) == out[k].txt = name \o " = 5;"

\* a `let` line of the variable stands before the k-th line
DeclaredBefore(out, k, name) ==
    \E j \in 1..(k - 1) : IsLetLine(out[j]) /\ LetName(out[j]) = name

NumbersDeclaredEmpty ==
    \E n \in 1..Len(lists.items) :
        lists.items[n].name = Str("numbers") /\ lists.items[n].items = <<>>

\* the list numbers is named by a list block only
NumbersDiscovered ==
    /\ \A n \in 1..Len(lists.items) : lists.items[n].name # Str("numbers")
    /\ \E id \in DOMAIN blocks :
          /\ StartsWith(blocks[id].opcode, "data_")
          /\ GetField(blocks[id], "LIST") = Str("numbers")

\* the initialiser of numbers with the literals 1 to 10 in ascending order
SeededNumbersLine ==
    Line(0, "list.newList(\"numbers\", ["
              \o Join([n \in 1..10 |-> ToString(n)]) \o "], false);")

\* C17: the list numbers, declared with no initial values or only found in
\* a list block, is initialised once, with exactly the literals 1 to 10 in
\* ascending order.
C17_NumbersSeed ==
    (pc = "returned" /\ ret.err = "none" /\ (NumbersDeclaredEmpty \/ NumbersDiscovered))
    => /\ Cardinality({k \in 1..Len(ret.out) : ret.out[k] = SeededNumbersLine}) = 1
       /\ Line(0, "list.createList(\"numbers\");") \notin Range(ret.out)

\* numbers is only found in a list block and its initialiser is emitted
C17_Witness ==
    /\ pc = "returned" /\ ret.err = "none"
    /\ NumbersDiscovered
    /\ SeededNumbersLine \in Range(ret.out)

\* the comment of a block categorised by the prefix of its opcode
PrefixComment(opcode) ==
    IF StartsWith(opcode, "motion_") THEN "// Motion block: " \o opcode
    ELSE IF StartsWith(opcode, "looks_") THEN "// Looks block: " \o opcode
    ELSE IF StartsWith(opcode, "sound_") THEN "// Sound block: " \o opcode
    ELSE IF StartsWith(opcode, "sensing_") THEN "// Sensing block: " \o opcode
    ELSE "// Unsupported block: " \o opcode

IsUnknownStatement == blocks[arg].opcode \in UnknownOpcodes

\* the next block of the block decompiled is a say block of the map
SayFollows ==
    /\ NextResolves(blocks, blocks[arg])
    /\ blocks[blocks[arg].next].opcode = "looks_say"

\* C18: decompileBlock on a statement block whose opcode has no case does not
\* raise, emits first the one comment line of the block, categorised by the
\* prefix of the opcode or else as unsupported, and goes on with the next
\* chain at the same indentation: the line of a say block that is next
\* follows the comment line.
C18_UnknownOpcodeComment ==
    (pc = "returned" /\ IsUnknownStatement)
    => /\ ret.err = "none"
       /\ Len(ret.out) >= 1
       /\ ret.out[1] = Line(0, PrefixComment(blocks[arg].opcode))
       /\ SayFollows => /\ Len(ret.out) >= 2
                        /\ ret.out[2] = Line(0, "looks.say(\"hello\");")

\* the names that are the target of a block that sets or changes a variable
TargetNames ==
    {blocks[id].fields.VARIABLE.s :
        id \in {b \in DOMAIN blocks :
                   blocks[b].opcode \in {"data_setvariableto", "data_changevariableby"}}}

\* the names with a fixed initial value
FallbackNames == {"len", "i", "j", "k", "result", "separator", "current", "next"}

\* the declaration lines a name can have
LetLinesOf ==
    [name \in DeclarableNames \cup FallbackNames |->
        {LetLine(name, value) : value \in DeclaredValues}]

\* the text holds a declaration line of the name
HasLetLine(out, name) == \E k \in 1..Len(out) : out[k] \in LetLinesOf[name]

====
